---- MODULE Spec2Model ----
(***************************************************************************)
(* KBO team statistics analyser (kbo_teamstat_streamlit.py): the outcome   *)
(* simulation engine.                                                      *)
(*                                                                         *)
(*   Spec      calculate_championship_probability and                      *)
(*             calculate_playoff_probability, one call per behaviour       *)
(*   SpecMC    monte_carlo_expected_wins, called on the process-wide       *)
(*             generator                                                   *)
(*   SpecMain  a session: every run of the script seeds the generator,     *)
(*             computes the expected wins and, on request, runs the two    *)
(*             simulators                                                  *)
(*   SpecPair  the pairwise (Bradley-Terry) simulation of main             *)
(*                                                                         *)
(* Real numbers are exact rationals <<numerator, denominator>>.  Column    *)
(* names are written in ASCII: "name" is the team-name column, "W" the     *)
(* wins column, "p_wpct" the Pythagorean rate, "remain" the remaining      *)
(* games column.                                                           *)
(***************************************************************************)
EXTENDS Integers, Sequences, FiniteSets, TLC

\* ---------------------------------------------------------------- bounds
\* Largest trial count (num_simulations) a call is given.
MaxSims == 4
\* Chunk size: the code's batch = 10_000, scaled down.
batch == 1
\* Probabilities are multiples of 1/PDen.
PDen == 2
\* Levels a variate of the generator is told apart by.
NumLevels == 2
\* Largest n_games given to monte_carlo_expected_wins.
MaxGames == 2
\* Largest n_sims given to monte_carlo_expected_wins.
MaxMCSims == 2
\* Calls of monte_carlo_expected_wins in a row.
MaxMCCalls == 2
\* n_sims of the expected-wins calls of main: the code's 100_000, scaled down.
MainMCSims == 1
\* Script runs of main.
MaxRuns == 2
\* Trial count of the two simulator calls of main: the sliders' 50_000 to
\* 300_000, scaled down.
MainSims == 1
\* Games a pair of teams plays in a season: the code's TARGET_PER_PAIR = 16,
\* scaled down.
TARGET_PER_PAIR == 3
\* Seasons of the pairwise simulation: the code's SEASONS = 1_000_000, scaled
\* down.
SEASONS == 2
\* Steps a strength of bt_fit is held to: a float has steps of 1 / Unit.
Unit == 8000
\* Rounds of bt_fit: the code's max_iter = 1000, scaled down.
max_iter == 3

\* ------------------------------------------------------ program constants
\* top_k = min(5, T)
TopK == 5
\* The floor 1e-12 of np.clip in bt_fit, in steps of a strength: a few
\* steps, so that dividing by the sum leaves it above zero as it does for
\* floats.
ClipFloor == 8
\* The tolerance tol = 1e-10 of bt_fit: one step of a strength.
Tol == 1

\* ------------------------------------------------------------- rationals
Rat(a, b) == <<a, b>>
RatEq(x, y) == x[1] * y[2] = y[1] * x[2]
RatLe(x, y) == x[1] * y[2] <= y[1] * x[2]

RatAdd(x, y) == << x[1] * y[2] + y[1] * x[2], x[2] * y[2] >>

\* The sum of the values of a mapping: of rationals, of integers.
RECURSIVE RatSumMap(_, _)
RatSumMap(m, D) ==
    IF D = {} THEN Rat(0, 1)
    ELSE LET k == CHOOSE k \in D : TRUE
         IN RatAdd(m[k], RatSumMap(m, D \ {k}))

RECURSIVE SumMap(_, _)
SumMap(m, D) ==
    IF D = {} THEN 0
    ELSE LET k == CHOOSE k \in D : TRUE IN m[k] + SumMap(m, D \ {k})

RECURSIVE SumSeq(_)
SumSeq(s) == IF s = <<>> THEN 0 ELSE s[1] + SumSeq(Tail(s))

Max2(a, b) == IF a >= b THEN a ELSE b
Min2(a, b) == IF a <= b THEN a ELSE b

\* -------------------------------------------------------------- cells
\* A cell of the input frame: a number, a missing value (NaN / None) or
\* text that is no number.
Num(v) == [k |-> "num", v |-> v]
NA == [k |-> "na", v |-> 0]
BAD == [k |-> "bad", v |-> 0]

\* ---------------------------------------------------------------- pandas
\* pd.to_numeric(col, errors="coerce"): what is not a number becomes NaN.
to_numeric(c) == IF c.k = "num" THEN c ELSE NA
\* .fillna(0)
fillna0(c) == IF c.k = "na" THEN Num(0) ELSE c
\* .clip(lower=0)
clip_lower0(c) == IF c.k = "num" /\ c.v < 0 THEN Num(0) ELSE c
\* .notna()
notna(c) == c.k # "na"

\* normalize_team_names: every whitespace character is removed.
normalize_team_name(s) ==
    CASE s = "K T"   -> "KT"
      [] s = " LG "  -> "LG"
      [] s = "S S G" -> "SSG"
      [] OTHER       -> s

\* ---------------------------------------------------------------- inputs
RequiredCols == {"name", "W", "p_wpct", "remain"}

RawNames == <<" LG ", "K T", "S S G", "NC", "KIA", "Doosan">>

\* A p_wpct strictly between 0 and 1.
PMid == Num(1)
POne == Num(PDen)
PZero == Num(0)

Row(w, pp, r) == [W |-> w, p_wpct |-> pp, remain |-> r]

TeamRows ==
    { Row(Num(2), PMid, Num(0)),      Row(Num(1), PMid, Num(0)),
      Row(Num(1), PMid, Num(1)),      Row(Num(0), PMid, Num(2)),
      Row(Num(1), POne, Num(1)),      Row(Num(1), PZero, Num(1)),
      Row(NA, PMid, Num(1)),          Row(Num(1), NA, Num(1)),
      Row(Num(2), PMid, NA),          Row(Num(1), PMid, Num(-1)),
      Row(Num(1), Num(-1), Num(1)),   Row(Num(1), Num(PDen + 1), Num(1)),
      Row(BAD, PMid, Num(1)),         Row(Num(2), BAD, Num(0)),
      Row(Num(0), PMid, Num(1)) }

WithNames(rows) ==
    [i \in 1..Len(rows) |-> [name |-> RawNames[i], W |-> rows[i].W,
                              p_wpct |-> rows[i].p_wpct,
                              remain |-> rows[i].remain]]

\* Tables of three and of six teams (more teams than play-off places).
BigRows ==
    { << Row(Num(2), PMid, Num(0)), Row(Num(1), PMid, Num(1)),
         Row(Num(0), PMid, Num(2)) >>,
      << Row(Num(2), PMid, Num(1)), Row(Num(2), NA, Num(1)),
         Row(Num(2), PMid, Num(0)) >>,
      << Row(Num(3), PMid, Num(0)), Row(Num(2), PMid, Num(1)),
         Row(Num(2), PZero, Num(1)), Row(Num(2), POne, Num(1)),
         Row(Num(1), PMid, Num(0)), Row(Num(3), NA, Num(0)) >>,
      << Row(Num(1), PMid, Num(0)), Row(Num(1), PMid, Num(0)),
         Row(Num(1), PMid, Num(0)), Row(Num(1), PMid, Num(0)),
         Row(Num(1), PMid, Num(0)), Row(Num(1), PMid, Num(1)) >>,
      << Row(Num(5), PMid, Num(0)), Row(Num(4), PMid, Num(0)),
         Row(Num(3), PMid, Num(0)), Row(Num(2), PMid, Num(0)),
         Row(Num(1), PMid, Num(0)), Row(Num(0), PMid, Num(0)) >> }

RowSeqs == UNION { [1..k -> TeamRows] : k \in 0..2 } \cup BigRows

\* A data frame: whether it is None, its columns and its rows.
Frame(cols, rows) == [isNone |-> FALSE, cols |-> cols, rows |-> rows]
None == [isNone |-> TRUE, cols |-> {}, rows |-> <<>>]

InputFrames ==
    { Frame(RequiredCols, WithNames(rs)) : rs \in RowSeqs }
      \cup { Frame(RequiredCols \ {c}, WithNames(<<Row(Num(1), PMid, Num(1))>>)) :
               c \in RequiredCols }
      \cup { Frame({}, <<>>) }
      \cup { None }

\* ----------------------------------------------------------------- state
VARIABLES
    fn,               \* the function called: "champ" or "po"
    teams_df,         \* its argument teams_df
    num_simulations,  \* its argument num_simulations
    pc,               \* "call", "loop", "returned", "raised"
    names,            \* names         (after cleaning)
    current_wins,     \* current_wins
    p,                \* p             (in PDen-ths)
    n_remain,         \* n_remain
    b,                \* the chunk index of the for loop
    n_batches,        \* n_batches
    counts,           \* wins_count / po_counts, a mapping from names
    final_wins,       \* final_wins of the last chunk: one row per season
    picked,           \* idx / ordered of the last chunk: one row per season
    prog,             \* every value given to st.progress / prog.progress
    ui,               \* st.warning / st.error / st.info messages shown
    ret,              \* the returned mapping
    ndraws,           \* random variates the call has drawn from np.random
    pos,              \* np.random: variates drawn since it was seeded
    tape,             \* np.random: the variates of the seed-42 stream known so far
    memo,             \* whether the stream of the seed is kept in tape
    mpc,              \* main: "top", "tab1", "tab4"; "none" outside main
    runs,             \* main: script runs started
    log,              \* main: the simulator calls that returned
    mc,               \* monte_carlo_expected_wins: the last call
    teams,            \* Bradley-Terry: teams, the team names of df_final
    vs,               \* the page with the head-to-head table, as fetched
    h2h,              \* the head-to-head matrices W, L, T
    cur,              \* cur_w, cur_l, cur_t
    bt,               \* s (in steps of 1 / Unit), iters, P, tie_pair
    R,                \* R, the remaining games of every pair
    pairs,            \* pairs
    pk,               \* pairs processed by the loop over pairs
    draw,             \* i, j, ties, non_ties, wins_i, wins_j of the last pair
    fin,              \* final_w, final_l, final_t: one row per season
    rank,             \* win_pct, rank_order, seed, rank_pct
    ppc               \* "fetch", "stopped", "parsed", "symmetric", "pairs",
                      \* "totals", "ranked"; "none"

genv == << pos, tape >>
pairv == << teams, vs, h2h, cur, bt, R, pairs, pk, draw, fin, rank, ppc >>
procv == << memo, pairv, mpc, runs, log, mc >>
callv == << fn, teams_df, num_simulations, pc, names, current_wins, p,
            n_remain, b, n_batches, counts, final_wins, picked, prog, ui,
            ret, ndraws >>

vars == << fn, teams_df, num_simulations, pc, names, current_wins, p,
           n_remain, b, n_batches, counts, final_wins, picked, prog, ui,
           ret, ndraws, pos, tape, memo, mpc, runs, log, mc, teams, vs, h2h,
           cur, bt, R, pairs, pk, draw, fin, rank, ppc >>

T == Len(names)
Teams == 1..T
NameSet == { names[i] : i \in Teams }
EmptyMap == [x \in {} |-> 0]

\* ------------------------------------------------------- entry of a call
\* teams_df is None or teams_df.empty
IsEmpty(df) == df.isNone \/ df.cols = {} \/ df.rows = <<>>

MissingCols(df) == RequiredCols \ df.cols

Accepted(df) == ~IsEmpty(df) /\ MissingCols(df) = {}

\* df after the type cleaning, the name normalisation and the notna() filter.
CleanedRows(df) ==
    LET cl == [i \in 1..Len(df.rows) |->
                 [name |-> normalize_team_name(df.rows[i].name),
                  W |-> fillna0(to_numeric(df.rows[i].W)),
                  p_wpct |-> fillna0(to_numeric(df.rows[i].p_wpct)),
                  remain |-> clip_lower0(fillna0(to_numeric(df.rows[i].remain)))]]
    IN SelectSeq(cl, LAMBDA r : notna(r.p_wpct) /\ notna(r.W) /\ notna(r.remain))

\* np.argmax: the first index holding the maximum.
ArgMax(row) ==
    CHOOSE i \in 1..Len(row) :
        /\ \A j \in 1..Len(row) : row[j] <= row[i]
        /\ \A j \in 1..(i - 1) : row[j] < row[i]

\* int(np.ceil(num_simulations / batch))
NBatches(ns) == (ns + batch - 1) \div batch

\* ThisBatch taking all the seasons in one chunk.
ThisBatchWhole(bb, ns) == ns

\* this_batch
ThisBatch(bb, ns) == IF (bb + 1) * batch <= ns THEN batch ELSE ns - bb * batch

\* The first return of both functions: no frame, or an empty one.
RejectEmpty ==
    /\ pc = "call"
    /\ IsEmpty(teams_df)
    /\ ui' = Append(ui, "warning: no team data")
    /\ ret' = EmptyMap
    /\ pc' = "returned"
    /\ UNCHANGED << fn, teams_df, num_simulations, names, current_wins, p,
                    n_remain, b, n_batches, counts, final_wins, picked, prog,
                    ndraws , genv, procv >>

\* The second return: a required column is missing.
RejectMissing ==
    /\ pc = "call"
    /\ ~IsEmpty(teams_df)
    /\ MissingCols(teams_df) # {}
    /\ ui' = Append(ui, "error: required column missing")
    /\ ret' = EmptyMap
    /\ pc' = "returned"
    /\ UNCHANGED << fn, teams_df, num_simulations, names, current_wins, p,
                    n_remain, b, n_batches, counts, final_wins, picked, prog,
                    ndraws , genv, procv >>

\* names, current_wins, p, n_remain of the cleaned frame.
LoadArrays(rows) ==
    /\ names' = [i \in 1..Len(rows) |-> rows[i].name]
    /\ current_wins' = [i \in 1..Len(rows) |-> rows[i].W.v]
    /\ p' = [i \in 1..Len(rows) |-> rows[i].p_wpct.v]
    /\ n_remain' = [i \in 1..Len(rows) |-> rows[i].remain.v]

AllRemainZero(rows) == \A i \in 1..Len(rows) : rows[i].remain.v = 0

\* Winners with every team level on the most wins given 100.
WinnersAllLeaders(rows) ==
    [nm \in { rows[i].name : i \in 1..Len(rows) } |->
        IF \E i \in 1..Len(rows) :
              /\ rows[i].name = nm
              /\ \A j \in 1..Len(rows) : rows[j].W.v <= rows[i].W.v
        THEN Rat(100, 1) ELSE Rat(0, 1)]

\* winners of the all-games-complete return.
Winners(rows) ==
    LET cw == [i \in 1..Len(rows) |-> rows[i].W.v]
        best == rows[ArgMax(cw)].name
    IN [nm \in { rows[i].name : i \in 1..Len(rows) } |->
          IF nm = best THEN Rat(100, 1) ELSE Rat(0, 1)]

\* calculate_championship_probability when every team has no game left.
ChampAllComplete ==
    /\ pc = "call" /\ fn = "champ"
    /\ Accepted(teams_df)
    /\ LET rows == CleanedRows(teams_df) IN
         /\ rows # <<>>
         /\ AllRemainZero(rows)
         /\ LoadArrays(rows)
         /\ ret' = Winners(rows)
    /\ ui' = Append(ui, "info: all remaining games are 0")
    /\ pc' = "returned"
    /\ UNCHANGED << fn, teams_df, num_simulations, b, n_batches, counts,
                    final_wins, picked, prog, ndraws , genv, procv >>

\* Both functions, from the cleaning up to the start of the chunk loop.
EnterLoop ==
    /\ pc = "call"
    /\ Accepted(teams_df)
    /\ LET rows == CleanedRows(teams_df) IN
         /\ rows # <<>>
         /\ fn = "champ" => ~AllRemainZero(rows)
         /\ LoadArrays(rows)
         /\ counts' = [nm \in { rows[i].name : i \in 1..Len(rows) } |-> 0]
    /\ prog' = Append(prog, Rat(0, 1))
    /\ n_batches' = NBatches(num_simulations)
    /\ b' = 0
    /\ pc' = "loop"
    /\ UNCHANGED << fn, teams_df, num_simulations, final_wins, picked, ui,
                    ret, ndraws , genv, procv >>

\* -------------------------------------------------------- the generator
\* np.random is one process-wide generator.  Once seeded it yields a fixed
\* stream of variates.  The stream is not known in advance: each variate is
\* chosen when it is first drawn and, when memo holds, kept in tape for
\* every later draw at the same position of the stream.  A variate is a
\* level in Levels, which binomial(n, p) with 0 < p < 1 turns into a count.
Levels == 0..(NumLevels - 1)

\* The count binomial(n, p), 0 < p < 1, yields from a variate of level u.
Quantile(n, u) == (u * (n + 1)) \div NumLevels

\* np.random.binomial(n, p) for 0 < p < 1: every count in 0..n can come.
Binomial(n) == 0..n

\* All sequences whose i-th element is taken from the i-th set of ss.
RECURSIVE Product(_)
Product(ss) ==
    IF ss = <<>> THEN { <<>> }
    ELSE { <<x>> \o rest : x \in ss[1], rest \in Product(Tail(ss)) }

\* Variates that ignore the stream of the seed: any counts at all.
FreshVariates(reqs) ==
    { [out |-> o, tape |-> tape] :
        o \in Product([i \in 1..Len(reqs) |-> Binomial(reqs[i])]) }

\* The next Len(reqs) variates of the generator, the i-th one a draw of
\* binomial(reqs[i], p): the counts drawn and the stream known afterwards.
Variates(reqs) ==
    IF memo
    THEN { [out |-> [i \in 1..Len(reqs) |-> Quantile(reqs[i], lv[i])],
            tape |-> IF pos + Len(reqs) <= Len(tape) THEN tape
                     ELSE SubSeq(tape, 1, pos) \o lv] :
             lv \in Product([i \in 1..Len(reqs) |->
                               IF pos + i <= Len(tape) THEN { tape[pos + i] }
                               ELSE Levels]) }
    ELSE { [out |-> o, tape |-> tape] :
             o \in Product([i \in 1..Len(reqs) |-> Binomial(reqs[i])]) }

\* ------------------------------------------------------------ one chunk
\* Whether column t of sim is drawn from the generator.
Drawn(t) == ~(n_remain[t] <= 0 \/ p[t] <= 0) /\ ~(p[t] >= PDen)

\* The teams drawn for, in the order of the loop over t.
DrawnTeams == SelectSeq([t \in Teams |-> t], Drawn)

\* SimFixed without the test of the rate: a team with p <= 0 is given all
\* its remaining games.
SimFixedRateIgnored(t) == IF n_remain[t] <= 0 THEN 0 ELSE n_remain[t]

\* Column t of sim when nothing is drawn for it.
SimFixed(t) == IF n_remain[t] <= 0 \/ p[t] <= 0 THEN 0 ELSE n_remain[t]

\* The place of team t in DrawnTeams.
DrawRank(t) == CHOOSE k \in 1..Len(DrawnTeams) : DrawnTeams[k] = t

\* sim, B rows (seasons) of T columns (teams), with the stream known after
\* it: team by team, np.random.binomial(n=nt, p=pt, size=B).
SimDraws(B) ==
    LET dt == DrawnTeams
        reqs == [k \in 1..(B * Len(dt)) |-> n_remain[dt[((k - 1) \div B) + 1]]]
    IN { [sim |-> [s \in 1..B |-> [t \in Teams |->
                      IF Drawn(t) THEN d.out[(DrawRank(t) - 1) * B + s]
                      ELSE SimFixed(t)]],
          tape |-> d.tape] : d \in Variates(reqs) }

\* FinalWins without the current wins added.
FinalWinsSimOnly(sim) ==
    [s \in 1..Len(sim) |-> [t \in Teams |-> sim[s][t]]]

\* final_wins = sim + current_wins
FinalWins(sim) ==
    [s \in 1..Len(sim) |-> [t \in Teams |-> sim[s][t] + current_wins[t]]]

\* How often team index t occurs in the rows of pks.
RECURSIVE Occurrences(_, _)
Occurrences(pks, t) ==
    IF pks = <<>> THEN 0
    ELSE Cardinality({ k \in 1..Len(pks[1]) : pks[1][k] = t })
           + Occurrences(Tail(pks), t)

\* for i in idx: wins_count[names[int(i)]] += 1   (likewise po_counts)
Credit(cnt, pks) ==
    [nm \in DOMAIN cnt |->
        cnt[nm] + SumSeq([t \in Teams |->
                            IF names[t] = nm THEN Occurrences(pks, t) ELSE 0])]

\* ChunkProgress reporting after the chunks with an odd index.
ChunkProgressOdd(bb) ==
    IF bb % 2 = 1 THEN Append(prog, Rat(bb + 1, n_batches)) ELSE prog

\* ChunkProgress reporting per cent instead of a fraction.
ChunkProgressPercent(bb) ==
    IF bb % 2 = 0 THEN Append(prog, Rat((bb + 1) * 100, n_batches)) ELSE prog

\* The progress report at the end of chunk bb.
ChunkProgress(bb) ==
    IF bb % 2 = 0 THEN Append(prog, Rat(bb + 1, n_batches)) ELSE prog

\* ChampPick crediting every team level on the most wins of a season.
ChampPickAllLeaders(fw) ==
    [s \in 1..Len(fw) |->
        SelectSeq([i \in 1..Len(fw[s]) |-> i],
                  LAMBDA i : fw[s][i] = fw[s][ArgMax(fw[s])])]

\* idx = np.argmax(final_wins, axis=1)
ChampPick(fw) == [s \in 1..Len(fw) |-> << ArgMax(fw[s]) >>]

\* One iteration of the chunk loop of calculate_championship_probability.
\* (this_batch <= 0 cannot happen for b < n_batches.)
ChampChunk ==
    /\ pc = "loop" /\ fn = "champ"
    /\ b < n_batches
    /\ \E d \in SimDraws(ThisBatch(b, num_simulations)) :
         LET fw == FinalWins(d.sim)
             idx == ChampPick(fw)
         IN /\ final_wins' = fw
            /\ picked' = idx
            /\ counts' = Credit(counts, idx)
            /\ tape' = d.tape
    /\ ndraws' = ndraws + ThisBatch(b, num_simulations) * Len(DrawnTeams)
    /\ pos' = pos + ThisBatch(b, num_simulations) * Len(DrawnTeams)
    /\ prog' = ChunkProgress(b)
    /\ b' = b + 1
    /\ UNCHANGED << fn, teams_df, num_simulations, pc, names, current_wins,
                    p, n_remain, n_batches, ui, ret , procv >>

\* top_k = min(5, T)
top_k == Min2(TopK, T)

\* TopSets taking every team with at least the wins of the K-th best.
TopSetsWithTies(row, K) ==
    { { j \in 1..Len(row) : \E i \in S : row[j] >= row[i] } :
        S \in { S \in SUBSET (1..Len(row)) :
                  /\ Cardinality(S) = K
                  /\ \A i \in S : \A j \in (1..Len(row)) \ S : row[i] >= row[j] } }

\* TopSets partitioning final_wins instead of -final_wins: the K lowest.
TopSetsLowest(row, K) ==
    { S \in SUBSET (1..Len(row)) :
        /\ Cardinality(S) = K
        /\ \A i \in S : \A j \in (1..Len(row)) \ S : row[i] <= row[j] }

\* np.argpartition(-final_wins, kth=top_k - 1)[:top_k]: some K indices none
\* of which holds fewer wins than an index left out.
TopSets(row, K) ==
    { S \in SUBSET (1..Len(row)) :
        /\ Cardinality(S) = K
        /\ \A i \in S : \A j \in (1..Len(row)) \ S : row[i] >= row[j] }

\* topk_idx ordered by falling final wins (equal wins by index).
RECURSIVE Ordered(_, _)
Ordered(S, row) ==
    IF S = {} THEN <<>>
    ELSE LET best == CHOOSE i \in S :
                       \A j \in S : row[j] < row[i] \/ (row[j] = row[i] /\ i <= j)
         IN <<best>> \o Ordered(S \ {best}, row)

\* The rows ordered can hold for the chunk fw.
POPicks(fw) ==
    Product([s \in 1..Len(fw) |->
               { Ordered(S, fw[s]) : S \in TopSets(fw[s], top_k) }])

\* One iteration of the chunk loop of calculate_playoff_probability.
POChunk ==
    /\ pc = "loop" /\ fn = "po"
    /\ b < n_batches
    /\ \E d \in SimDraws(ThisBatch(b, num_simulations)) :
         LET fw == FinalWins(d.sim) IN
         \E ordered \in POPicks(fw) :
            /\ final_wins' = fw
            /\ picked' = ordered
            /\ counts' = Credit(counts, ordered)
            /\ tape' = d.tape
    /\ ndraws' = ndraws + ThisBatch(b, num_simulations) * Len(DrawnTeams)
    /\ pos' = pos + ThisBatch(b, num_simulations) * Len(DrawnTeams)
    /\ prog' = ChunkProgress(b)
    /\ b' = b + 1
    /\ UNCHANGED << fn, teams_df, num_simulations, pc, names, current_wins,
                    p, n_remain, n_batches, ui, ret , procv >>

\* {k: v / num_simulations * 100.0 for k, v in counts.items()}
Percentages(cnt, ns) == [nm \in DOMAIN cnt |-> Rat(cnt[nm] * 100, ns)]

\* After the loop: the last progress report and the return.  With
\* num_simulations = 0 the division raises ZeroDivisionError.
Finish ==
    /\ pc = "loop"
    /\ b = n_batches
    /\ prog' = Append(prog, Rat(1, 1))
    /\ IF num_simulations = 0
         THEN pc' = "raised" /\ ret' = ret
         ELSE pc' = "returned" /\ ret' = Percentages(counts, num_simulations)
    /\ UNCHANGED << fn, teams_df, num_simulations, names, current_wins, p,
                    n_remain, b, n_batches, counts, final_wins, picked, ui,
                    ndraws , genv, procv >>

\* ------------------------------------------- no pairwise simulation
PairIdle ==
    /\ teams = <<>>
    /\ vs = [tables |-> 0]
    /\ h2h = [W |-> <<>>, L |-> <<>>, T |-> <<>>]
    /\ cur = [w |-> <<>>, l |-> <<>>, t |-> <<>>]
    /\ bt = [s |-> <<>>, iters |-> 0, P |-> <<>>, tie_pair |-> <<>>]
    /\ R = <<>>
    /\ pairs = <<>>
    /\ pk = 0
    /\ draw = [i |-> 0, j |-> 0, ties |-> <<>>, non_ties |-> <<>>,
               wins_i |-> <<>>, wins_j |-> <<>>]
    /\ fin = [w |-> <<>>, l |-> <<>>, t |-> <<>>]
    /\ rank = [win_pct |-> <<>>, rank_order |-> <<>>, seed |-> <<>>,
               counts |-> <<>>, rank_pct |-> <<>>]
    /\ ppc = "none"

\* ------------------------------------------------------- specification
\* No call of monte_carlo_expected_wins yet.
NoCall == [called |-> FALSE, calls |-> 0, p |-> 0, n_games |-> 0, n_sims |-> 0,
           ret |-> Rat(0, 1), pos0 |-> 0, tape0 |-> <<>>]

\* The tables of at most one team, for the calls of many chunks.
ShortFrames == { f \in InputFrames : Len(f.rows) <= 1 }

\* A trial count that takes three chunks, the last one partial.
LongRun == 2 * batch + 1

\* The calls: every table with a trial count up to MaxSims, and the short
\* tables with LongRun trials.
Calls ==
    (InputFrames \X (0..MaxSims)) \cup (ShortFrames \X {LongRun})

Init ==
    /\ fn \in {"champ", "po"}
    /\ \E c \in Calls : teams_df = c[1] /\ num_simulations = c[2]
    /\ pc = "call"
    /\ names = <<>> /\ current_wins = <<>> /\ p = <<>> /\ n_remain = <<>>
    /\ b = 0 /\ n_batches = 0
    /\ counts = EmptyMap
    /\ final_wins = <<>> /\ picked = <<>>
    /\ prog = <<>> /\ ui = <<>>
    /\ ret = EmptyMap
    /\ ndraws = 0
    /\ pos = 0 /\ tape = <<>> /\ memo = FALSE
    /\ mpc = "none" /\ runs = 0 /\ log = <<>>
    /\ mc = NoCall
    /\ PairIdle

Next ==
    \/ RejectEmpty
    \/ RejectMissing
    \/ ChampAllComplete
    \/ EnterLoop
    \/ ChampChunk
    \/ POChunk
    \/ Finish

Spec == Init /\ [][Next]_vars

\* ------------------------------------------- monte_carlo_expected_wins
\* MCOutcomes sampling also when p <= 0.
MCOutcomesSampleAtZero(pp, n_games, n_sims) ==
    IF n_games <= 0
    THEN { [ret |-> Rat(0, 1), tape |-> tape, drawn |-> 0] }
    ELSE IF pp >= PDen
    THEN { [ret |-> Rat(n_games, 1), tape |-> tape, drawn |-> 0] }
    ELSE { [ret |-> Rat(IF pp <= 0 THEN 0 ELSE SumSeq(d.out), n_sims),
            tape |-> d.tape, drawn |-> n_sims] :
             d \in Variates([i \in 1..n_sims |-> n_games]) }

\* MCOutcomes sampling also when p >= 1.
MCOutcomesSampleAtOne(pp, n_games, n_sims) ==
    IF n_games <= 0 \/ pp <= 0
    THEN { [ret |-> Rat(0, 1), tape |-> tape, drawn |-> 0] }
    ELSE { [ret |-> Rat(IF pp >= PDen THEN n_games * n_sims ELSE SumSeq(d.out),
                        n_sims),
            tape |-> d.tape, drawn |-> n_sims] :
             d \in Variates([i \in 1..n_sims |-> n_games]) }

\* monte_carlo_expected_wins(p, n_games, n_sims): the value returned, the
\* stream known afterwards and the number of variates drawn.
MCOutcomes(pp, n_games, n_sims) ==
    IF n_games <= 0
    THEN { [ret |-> Rat(0, 1), tape |-> tape, drawn |-> 0] }
    ELSE IF pp <= 0
    THEN { [ret |-> Rat(0, 1), tape |-> tape, drawn |-> 0] }
    ELSE IF pp >= PDen
    THEN { [ret |-> Rat(n_games, 1), tape |-> tape, drawn |-> 0] }
    ELSE { [ret |-> Rat(SumSeq(d.out), n_sims), tape |-> d.tape,
            drawn |-> n_sims] :
             d \in Variates([i \in 1..n_sims |-> n_games]) }

\* One call of monte_carlo_expected_wins.
monte_carlo_expected_wins(pp, n_games, n_sims) ==
    \E o \in MCOutcomes(pp, n_games, n_sims) :
       /\ mc' = [called |-> TRUE, calls |-> mc.calls + 1, p |-> pp,
                 n_games |-> n_games, n_sims |-> n_sims, ret |-> o.ret,
                 pos0 |-> pos, tape0 |-> tape]
       /\ tape' = o.tape
       /\ pos' = pos + o.drawn

\* The arguments the function is called with: p below 0, 0, between 0 and
\* 1, 1 and above 1; n_games from -1.
MCProbs == {-1, 0, 1, PDen, PDen + 1}
MCGames == (-1)..MaxGames

MCCall ==
    /\ mc.calls < MaxMCCalls
    /\ \E pp \in MCProbs, n_games \in MCGames, n_sims \in 1..MaxMCSims :
          monte_carlo_expected_wins(pp, n_games, n_sims)
    /\ UNCHANGED << callv, memo, pairv, mpc, runs, log >>

\* No simulator call is running.
IdleCall ==
    /\ fn = "none" /\ teams_df = None /\ num_simulations = 0
    /\ pc = "idle"
    /\ names = <<>> /\ current_wins = <<>> /\ p = <<>> /\ n_remain = <<>>
    /\ b = 0 /\ n_batches = 0
    /\ counts = EmptyMap
    /\ final_wins = <<>> /\ picked = <<>>
    /\ prog = <<>> /\ ui = <<>>
    /\ ret = EmptyMap
    /\ ndraws = 0

MCInit ==
    /\ IdleCall
    /\ pos = 0 /\ tape = <<>> /\ memo \in BOOLEAN
    /\ mpc = "none" /\ runs = 0 /\ log = <<>>
    /\ mc = NoCall
    /\ PairIdle

MCNext == MCCall

SpecMC == MCInit /\ [][MCNext]_vars

\* ------------------------------------------------------------------ main
\* One session of the application.  Every run of the script seeds np.random
\* with 42, computes the expected wins of every row of df_final (once with
\* the rate of the standings, once with p_wpct) and, in the fourth tab,
\* calls calculate_championship_probability and then
\* calculate_playoff_probability on df_final.

\* df_final of the session.
SessionFrames ==
    { Frame(RequiredCols, WithNames(rs)) :
        rs \in { << Row(Num(1), PMid, Num(0)), Row(Num(1), PMid, Num(2)) >>,
                 << Row(Num(2), PMid, Num(0)) >> } }

\* The rate column of the standings: 0 or a rate between 0 and 1.
WinRates == {0, 1}

\* _validate_sim_inputs (team names are never missing in the model).
ValidSimInputs(df) == ~IsEmpty(df) /\ MissingCols(df) = {}

\* A cell as int(...) / float(...) if pd.notna(...) else 0.
CellOrZero(c) == IF c.k = "num" THEN c.v ELSE 0

\* The locals of a simulator call that starts.
StartCall(f) ==
    /\ fn' = f
    /\ pc' = "call"
    /\ names' = <<>> /\ current_wins' = <<>> /\ p' = <<>> /\ n_remain' = <<>>
    /\ b' = 0 /\ n_batches' = 0
    /\ counts' = EmptyMap
    /\ final_wins' = <<>> /\ picked' = <<>>
    /\ prog' = <<>> /\ ui' = <<>>
    /\ ret' = EmptyMap
    /\ ndraws' = 0
    /\ UNCHANGED << teams_df, num_simulations >>

\* The script starts: np.random.seed(42).
RunScript ==
    /\ mpc = "top"
    /\ runs < MaxRuns
    /\ runs' = runs + 1
    /\ pos' = 0
    /\ mc' = NoCall
    /\ mpc' = "tab1"
    /\ UNCHANGED << callv, tape, memo, pairv, log >>

\* The next call of the two expected-wins columns.
Tab1ExpectedWins ==
    /\ mpc = "tab1"
    /\ mc.calls < 2 * Len(teams_df.rows)
    /\ LET k == mc.calls + 1
           n == Len(teams_df.rows)
           row == teams_df.rows[IF k <= n THEN k ELSE k - n]
       IN \E rate \in (IF k <= n THEN WinRates ELSE { CellOrZero(row.p_wpct) }) :
             monte_carlo_expected_wins(rate, CellOrZero(row.remain), MainMCSims)
    /\ UNCHANGED << callv, memo, pairv, mpc, runs, log >>

\* The start button of the fourth tab.
PressStart ==
    /\ mpc = "tab1"
    /\ mc.calls = 2 * Len(teams_df.rows)
    /\ ValidSimInputs(teams_df)
    /\ StartCall("champ")
    /\ mpc' = "tab4"
    /\ UNCHANGED << genv, memo, pairv, runs, log, mc >>

\* A simulator call has returned to main.
ReturnToMain ==
    /\ mpc = "tab4"
    /\ pc = "returned"
    /\ log' = Append(log, [fn |-> fn, teams_df |-> teams_df,
                           num_simulations |-> num_simulations,
                           entry |-> pos - ndraws, drawn |-> ndraws,
                           ret |-> ret])
    /\ IF fn = "champ"
         THEN StartCall("po") /\ mpc' = mpc
         ELSE /\ mpc' = "top"
              /\ pc' = "idle"
              /\ UNCHANGED << fn, teams_df, num_simulations, names,
                              current_wins, p, n_remain, b, n_batches, counts,
                              final_wins, picked, prog, ui, ret, ndraws >>
    /\ UNCHANGED << genv, memo, pairv, runs, mc >>

MainInit ==
    /\ fn = "none"
    /\ teams_df \in SessionFrames
    /\ num_simulations = MainSims
    /\ pc = "idle"
    /\ names = <<>> /\ current_wins = <<>> /\ p = <<>> /\ n_remain = <<>>
    /\ b = 0 /\ n_batches = 0
    /\ counts = EmptyMap
    /\ final_wins = <<>> /\ picked = <<>>
    /\ prog = <<>> /\ ui = <<>>
    /\ ret = EmptyMap
    /\ ndraws = 0
    /\ pos = 0 /\ tape = <<>> /\ memo = TRUE
    /\ mpc = "top" /\ runs = 0 /\ log = <<>>
    /\ mc = NoCall
    /\ PairIdle

\* (After _validate_sim_inputs the two rejecting returns cannot be taken.)
MainNext ==
    \/ RunScript
    \/ Tab1ExpectedWins
    \/ PressStart
    \/ ChampAllComplete
    \/ EnterLoop
    \/ ChampChunk
    \/ POChunk
    \/ Finish
    \/ ReturnToMain

SpecMain == MainInit /\ [][MainNext]_vars

\* ------------------------------------------------ the pairwise simulation
\* The Bradley-Terry section of main.  A league is what the section reads:
\* the team names of df_final, the number of tables on the fetched page (0:
\* the page could not be fetched; the head-to-head table is the second one),
\* the head-to-head cells "W-L-T" that parse_wlt reads above the diagonal,
\* whether the cells below the diagonal carry the mirrored record or
\* nothing, or (stale) repeat the cell above the diagonal unswapped, and whether df_final holds the standings that go with the cells
\* or only zeros.
PairCell(w, l, t) == [w |-> w, l |-> l, t |-> t]

Leagues ==
    { [teams |-> << "LG", "KT", "SSG" >>,
       cells |-> (<< 1, 2 >> :> PairCell(1, 0, 1)) @@
                 (<< 1, 3 >> :> PairCell(2, 1, 1)) @@
                 (<< 2, 3 >> :> PairCell(1, 1, 1)),
       tables |-> 2, mirrored |-> TRUE, stale |-> FALSE,
       standings |-> TRUE],
      [teams |-> << "LG", "KT", "SSG" >>,
       cells |-> (<< 1, 2 >> :> PairCell(0, 1, 1)) @@
                 (<< 1, 3 >> :> PairCell(2, 0, 0)) @@
                 (<< 2, 3 >> :> PairCell(2, 1, 1)),
       tables |-> 2, mirrored |-> FALSE, stale |-> FALSE,
       standings |-> FALSE],
      [teams |-> << "LG", "KT", "SSG" >>,
       cells |-> (<< 1, 2 >> :> PairCell(0, 0, 0)) @@
                 (<< 1, 3 >> :> PairCell(2, 1, 1)) @@
                 (<< 2, 3 >> :> PairCell(3, 0, 1)),
       tables |-> 2, mirrored |-> TRUE, stale |-> FALSE,
       standings |-> TRUE],
      [teams |-> << "LG", "KT" >>,
       cells |-> (<< 1, 2 >> :> PairCell(0, 0, 0)),
       tables |-> 2, mirrored |-> TRUE, stale |-> FALSE,
       standings |-> FALSE],
      [teams |-> << "LG", "KT", "SSG" >>,
       cells |-> (<< 1, 2 >> :> PairCell(3, 2, 0)) @@
                 (<< 1, 3 >> :> PairCell(4, 0, 0)) @@
                 (<< 2, 3 >> :> PairCell(2, 2, 1)),
       tables |-> 2, mirrored |-> TRUE, stale |-> FALSE,
       standings |-> TRUE] }
      \cup
    { [teams |-> << "LG", "KT", "SSG" >>,
       cells |-> (<< 1, 2 >> :> PairCell(10, 0, 0)) @@
                 (<< 1, 3 >> :> PairCell(0, 0, 0)) @@
                 (<< 2, 3 >> :> PairCell(10, 0, 0)),
       tables |-> 2, mirrored |-> TRUE, stale |-> FALSE,
       standings |-> TRUE] }
      \cup
    { [teams |-> << "LG", "KT" >>,
       cells |-> (<< 1, 2 >> :> PairCell(1, 1, 0)),
       tables |-> k, mirrored |-> TRUE, stale |-> FALSE,
       standings |-> TRUE] : k \in {0, 1} }
      \cup
    { [teams |-> << "LG", "KT", "SSG" >>,
       cells |-> (<< 1, 2 >> :> PairCell(2, 0, 0)) @@
                 (<< 1, 3 >> :> PairCell(1, 1, 0)) @@
                 (<< 2, 3 >> :> PairCell(0, 2, 0)),
       tables |-> 2, mirrored |-> FALSE, stale |-> TRUE,
       standings |-> TRUE] }
      \cup
    { [teams |-> << "LG", "KT", "SSG", "NC" >>,
       cells |-> (<< 1, 2 >> :> PairCell(1, 1, 0)) @@
                 (<< 1, 3 >> :> PairCell(3, 2, 0)) @@
                 (<< 1, 4 >> :> PairCell(4, 1, 0)) @@
                 (<< 2, 3 >> :> PairCell(2, 3, 0)) @@
                 (<< 2, 4 >> :> PairCell(3, 1, 1)) @@
                 (<< 3, 4 >> :> PairCell(1, 1, 0)),
       tables |-> 2, mirrored |-> TRUE, stale |-> FALSE,
       standings |-> TRUE] }
      \cup
    { [teams |-> << "LG", "KT", "SSG" >>,
       cells |-> (<< 1, 2 >> :> PairCell(4, 0, 0)) @@
                 (<< 1, 3 >> :> PairCell(0, 0, 0)) @@
                 (<< 2, 3 >> :> PairCell(0, 0, 0)),
       tables |-> 2, mirrored |-> TRUE, stale |-> FALSE,
       standings |-> TRUE] }
      \cup
    { [teams |-> << "LG", "KT", "SSG" >>,
       cells |-> (<< 1, 2 >> :> PairCell(2, 2, 0)) @@
                 (<< 1, 3 >> :> PairCell(3, 1, 0)) @@
                 (<< 2, 3 >> :> PairCell(1, 0, 1)),
       tables |-> 2, mirrored |-> TRUE, stale |-> FALSE,
       standings |-> FALSE] }

\* n = len(teams) and the team indices.
n == Len(teams)
Idx == 1..n

\* The cells (i, j), i # j, in the order of the two nested loops over range(n).
OrderedCells(m) ==
    SelectSeq([k \in 1..(m * m) |-> << ((k - 1) \div m) + 1, ((k - 1) % m) + 1 >>],
              LAMBDA c : c[1] # c[2])

\* W, L, T after the loop over df_vs: the cells that parse, zeros elsewhere.
ParsedMatrices(lg) ==
    LET m == Len(lg.teams)
        at(i, j, f) ==
            IF i < j THEN lg.cells[<< i, j >>][f]
            ELSE IF i > j /\ lg.stale THEN lg.cells[<< j, i >>][f]
            ELSE IF i > j /\ lg.mirrored
                 THEN lg.cells[<< j, i >>][IF f = "w" THEN "l"
                                           ELSE IF f = "l" THEN "w" ELSE "t"]
                 ELSE 0
    IN  [W |-> [i \in 1..m |-> [j \in 1..m |-> at(i, j, "w")]],
         L |-> [i \in 1..m |-> [j \in 1..m |-> at(i, j, "l")]],
         T |-> [i \in 1..m |-> [j \in 1..m |-> at(i, j, "t")]]]

\* cur_w, cur_l, cur_t: the columns of df_final in the order of teams.
Standings(lg) ==
    LET m == Len(lg.teams)
        tot(i, f) ==
            IF lg.standings
            THEN SumSeq([j \in 1..m |->
                    IF i < j THEN lg.cells[<< i, j >>][f]
                    ELSE IF i > j
                         THEN lg.cells[<< j, i >>][IF f = "w" THEN "l"
                                                   ELSE IF f = "l" THEN "w"
                                                   ELSE "t"]
                         ELSE 0])
            ELSE 0
    IN  [w |-> [i \in 1..m |-> tot(i, "w")],
         l |-> [i \in 1..m |-> tot(i, "l")],
         t |-> [i \in 1..m |-> tot(i, "t")]]

\* A page was fetched and holds a second table.
TablePresentOneEnough(v) == v.tables >= 1

TablePresent(v) == v.tables >= 2

\* No head-to-head table: st.error and st.stop().
StopNoTable ==
    /\ ppc = "fetch"
    /\ ~TablePresent(vs)
    /\ ppc' = "stopped"
    /\ UNCHANGED << callv, genv, memo, mpc, runs, log, mc, teams, vs, h2h,
                    cur, bt, R, pairs, pk, draw, fin, rank >>

\* The table is normalised and its cells are parsed into W, L, T.
Parse ==
    /\ ppc = "fetch"
    /\ TablePresent(vs)
    /\ h2h' = ParsedMatrices(vs)
    /\ ppc' = "parsed"
    /\ UNCHANGED << callv, genv, memo, mpc, runs, log, mc, teams, vs, cur, bt,
                    R, pairs, pk, draw, fin, rank >>

\* SymmetryLoop filling in only the cells (j, i) that hold no game.
RECURSIVE SymmetryLoopFillOnly(_, _)
SymmetryLoopFillOnly(m, cells) ==
    IF cells = <<>> THEN m
    ELSE LET i == cells[1][1]
             j == cells[1][2]
         IN  IF m.W[j][i] + m.L[j][i] + m.T[j][i] > 0
             THEN SymmetryLoopFillOnly(m, Tail(cells))
             ELSE SymmetryLoopFillOnly(
                      [W |-> [m.W EXCEPT ![j][i] = m.L[i][j]],
                       L |-> [m.L EXCEPT ![j][i] = m.W[i][j]],
                       T |-> [m.T EXCEPT ![j][i] = m.T[i][j]]],
                      Tail(cells))

\* for i in range(n): for j in range(n): if i == j: continue
\*     W[j, i], L[j, i], T[j, i] = L[i, j], W[i, j], T[i, j]
RECURSIVE SymmetryLoop(_, _)
SymmetryLoop(m, cells) ==
    IF cells = <<>> THEN m
    ELSE LET i == cells[1][1]
             j == cells[1][2]
         IN  SymmetryLoop([W |-> [m.W EXCEPT ![j][i] = m.L[i][j]],
                           L |-> [m.L EXCEPT ![j][i] = m.W[i][j]],
                           T |-> [m.T EXCEPT ![j][i] = m.T[i][j]]],
                          Tail(cells))

Symmetrize ==
    /\ ppc = "parsed"
    /\ h2h' = SymmetryLoop(h2h, OrderedCells(n))
    /\ ppc' = "symmetric"
    /\ UNCHANGED << callv, genv, memo, mpc, runs, log, mc, teams, vs, cur, bt, R,
                    pairs, pk, draw, fin, rank >>

\* G_played = W + L + T
G_played == [i \in Idx |-> [j \in Idx |-> h2h.W[i][j] + h2h.L[i][j] + h2h.T[i][j]]]

\* np.clip(x, 0.0, 1.0) of a rational
Clip01(x) == IF x[1] < 0 THEN Rat(0, 1) ELSE IF x[1] > x[2] THEN Rat(1, 1) ELSE x

\* bt_fit works on floats.  Here a strength is a whole number of steps of
\* 1 / Unit and every division rounds down to a step; the floor of np.clip
\* is ClipFloor steps and the tolerance Tol steps.

\* s = np.ones(n); s /= s.sum()
BtStart == [i \in Idx |-> Unit \div n]

\* w_i = (W[i, :] + 0.5 * T[i, :]).sum(), doubled
BtWins2(i) == SumSeq([j \in Idx |-> 2 * h2h.W[i][j] + h2h.T[i][j]])

\* denom: the sum of n_ij / (s[i] + s[j]) over the opponents played, in steps
BtDenom(s, i) ==
    SumSeq([j \in Idx |->
              IF i # j /\ G_played[i][j] > 0
              THEN (G_played[i][j] * Unit * Unit) \div (s[i] + s[j])
              ELSE 0])

\* update(s) that leaves out the floor of np.clip.
BtUpdateUnclipped(s) ==
    LET raw == [i \in Idx |->
                  IF BtDenom(s, i) > 0
                  THEN (BtWins2(i) * Unit * Unit) \div (2 * BtDenom(s, i))
                  ELSE s[i]]
        tot == SumSeq(raw)
    IN  [i \in Idx |-> IF tot = 0 THEN 0 ELSE (raw[i] * Unit) \div tot]

\* update(s) that gives 0 instead of s[i] to a team with denom = 0.
BtUpdateIdleZero(s) ==
    LET raw == [i \in Idx |->
                  IF BtDenom(s, i) > 0
                  THEN (BtWins2(i) * Unit * Unit) \div (2 * BtDenom(s, i))
                  ELSE 0]
        clipped == [i \in Idx |-> Max2(raw[i], ClipFloor)]
        tot == SumSeq(clipped)
    IN  [i \in Idx |-> (clipped[i] * Unit) \div tot]

\* update(s): new_s[i] = w_i / denom if denom > 0 else s[i]; np.clip from
\* below; new_s / new_s.sum()
BtUpdate(s) ==
    LET raw == [i \in Idx |->
                  IF BtDenom(s, i) > 0
                  THEN (BtWins2(i) * Unit * Unit) \div (2 * BtDenom(s, i))
                  ELSE s[i]]
        clipped == [i \in Idx |-> Max2(raw[i], ClipFloor)]
        tot == SumSeq(clipped)
    IN  [i \in Idx |-> (clipped[i] * Unit) \div tot]

\* np.max(np.abs(new_s - s))
BtMaxDiff(x, y) ==
    LET d == { IF x[i] >= y[i] THEN x[i] - y[i] ELSE y[i] - x[i] : i \in Idx }
    IN  CHOOSE m \in d : \A e \in d : e <= m

\* The loop of bt_fit without the test of the change: every fit runs
\* max_iter rounds.
RECURSIVE BtLoopAllRounds(_, _)
BtLoopAllRounds(s, k) ==
    IF k = max_iter THEN [s |-> s, iters |-> k, converged |-> FALSE]
    ELSE BtLoopAllRounds(BtUpdate(s), k + 1)

\* for _ in range(max_iter): new_s = update(s); return new_s when the change
\* is below tol; s = new_s.  After max_iter rounds: return s.
RECURSIVE BtLoop(_, _)
BtLoop(s, k) ==
    IF k = max_iter THEN [s |-> s, iters |-> k, converged |-> FALSE]
    ELSE LET new_s == BtUpdate(s)
         IN  IF BtMaxDiff(new_s, s) < Tol
             THEN [s |-> new_s, iters |-> k + 1, converged |-> TRUE]
             ELSE BtLoop(new_s, k + 1)

\* s = bt_fit(W, T, G_played)
bt_fit == BtLoop(BtStart, 0)

\* P = S / (S + S.T), nan_to_num, clip, fill_diagonal(P, 0.0)
WinProb(s) ==
    [i \in Idx |-> [j \in Idx |->
        IF i = j THEN Rat(0, 1)
        ELSE IF s[i] + s[j] = 0 THEN Rat(1, 2)
        ELSE Clip01(Rat(s[i], s[i] + s[j]))]]

\* league_tie_rate = nanmean of T / G_played over the cells with games;
\* without such a cell it is NaN, which nan_to_num turns into 0.
PlayedCells == { c \in Idx \X Idx : G_played[c[1]][c[2]] > 0 }

RECURSIVE RatSumCells(_)
RatSumCells(C) ==
    IF C = {} THEN Rat(0, 1)
    ELSE LET c == CHOOSE x \in C : TRUE
         IN  RatAdd(Rat(h2h.T[c[1]][c[2]], G_played[c[1]][c[2]]),
                    RatSumCells(C \ {c}))

\* league_tie_rate left NaN (0/0) when no cell has games.
LeagueTieRateNaN ==
    IF PlayedCells = {} THEN Rat(0, 0)
    ELSE LET sm == RatSumCells(PlayedCells)
         IN  Rat(sm[1], sm[2] * Cardinality(PlayedCells))

league_tie_rate ==
    IF PlayedCells = {} THEN Rat(0, 1)
    ELSE LET sm == RatSumCells(PlayedCells)
         IN  Rat(sm[1], sm[2] * Cardinality(PlayedCells))

\* tie_pair: T / G_played where games were played, the league rate elsewhere,
\* clipped, with a zero diagonal.
TiePair ==
    [i \in Idx |-> [j \in Idx |->
        IF i = j THEN Rat(0, 1)
        ELSE IF G_played[i][j] > 0
             THEN Clip01(Rat(h2h.T[i][j], G_played[i][j]))
             ELSE Clip01(league_tie_rate)]]

\* Remaining with TARGET_PER_PAIR games for every pair, whatever was played.
RemainingPerSeason ==
    [i \in Idx |-> [j \in Idx |-> IF i = j THEN 0 ELSE TARGET_PER_PAIR]]

\* Remaining without np.maximum(0, .).
RemainingUnfloored ==
    [i \in Idx |-> [j \in Idx |->
        IF i = j THEN 0 ELSE TARGET_PER_PAIR - G_played[i][j]]]

\* R = np.maximum(0, TARGET_PER_PAIR - G_played); np.fill_diagonal(R, 0)
Remaining ==
    [i \in Idx |-> [j \in Idx |->
        IF i = j THEN 0
        ELSE Max2(0, TARGET_PER_PAIR - G_played[i][j])]]

\* pairs = [(i, j) for i in range(n) for j in range(i + 1, n) if R[i, j] > 0]
PairList(rm) ==
    SelectSeq(OrderedCells(n), LAMBDA c : c[1] < c[2] /\ rm[c[1]][c[2]] > 0)

\* np.zeros((SEASONS, n))
ZeroSeasons == [sn \in 1..SEASONS |-> [i \in Idx |-> 0]]

\* Lines 1439-1506: strengths, probabilities, tie rates, remaining games,
\* the arrays of the seasons and the list of pairs still to play.
Estimate ==
    /\ ppc = "symmetric"
    /\ bt' = [s |-> bt_fit.s, iters |-> bt_fit.iters,
              P |-> WinProb(bt_fit.s), tie_pair |-> TiePair]
    /\ R' = Remaining
    /\ pairs' = PairList(Remaining)
    /\ fin' = [w |-> ZeroSeasons, l |-> ZeroSeasons, t |-> ZeroSeasons]
    /\ pk' = 0
    /\ ppc' = "pairs"
    /\ UNCHANGED << callv, genv, memo, mpc, runs, log, mc, teams, vs, h2h, cur,
                    draw, rank >>

\* rng.binomial(m, q): m when q is 1, 0 when q is 0, any count up to m else.
rng_binomial(m, q) ==
    IF q[1] <= 0 THEN { 0 } ELSE IF q[1] >= q[2] THEN { m } ELSE 0..m

\* One season of a pair that forgets the ties when it sets wins_j.
PairOutcomesTiesForgotten(r, tie_prob, win_prob) ==
    UNION { { [ties |-> t, non_ties |-> r - t, wins_i |-> w, wins_j |-> r - w] :
                w \in rng_binomial(r - t, win_prob) } :
            t \in rng_binomial(r, tie_prob) }

\* One season of a pair with r games left:
\*   ties = binomial(r, tie_prob); non_ties = r - ties
\*   wins_i = binomial(non_ties, win_prob); wins_j = non_ties - wins_i
PairOutcomes(r, tie_prob, win_prob) ==
    UNION { { [ties |-> t, non_ties |-> r - t, wins_i |-> w,
               wins_j |-> (r - t) - w] :
                w \in rng_binomial(r - t, win_prob) } :
            t \in rng_binomial(r, tie_prob) }

\* Booked adding the ties of the pair to the column of every team.
BookedTiesForAll(f, i, j, o) ==
    [w |-> [sn \in 1..SEASONS |->
              [f.w[sn] EXCEPT ![i] = @ + o[sn].wins_i, ![j] = @ + o[sn].wins_j]],
     l |-> [sn \in 1..SEASONS |->
              [f.l[sn] EXCEPT ![i] = @ + o[sn].wins_j, ![j] = @ + o[sn].wins_i]],
     t |-> [sn \in 1..SEASONS |-> [c \in Idx |-> f.t[sn][c] + o[sn].ties]]]

\* Booked without final_l[:, j] += wins_i: the wins of i are no loss of j.
BookedWithoutLossesOfJ(f, i, j, o) ==
    [w |-> [sn \in 1..SEASONS |->
              [f.w[sn] EXCEPT ![i] = @ + o[sn].wins_i, ![j] = @ + o[sn].wins_j]],
     l |-> [sn \in 1..SEASONS |->
              [f.l[sn] EXCEPT ![i] = @ + o[sn].wins_j]],
     t |-> [sn \in 1..SEASONS |->
              [f.t[sn] EXCEPT ![i] = @ + o[sn].ties, ![j] = @ + o[sn].ties]]]

\* The six += of a pass: final_w[:, i] += wins_i, final_l[:, i] += wins_j,
\* final_t[:, i] += ties, final_w[:, j] += wins_j, final_l[:, j] += wins_i,
\* final_t[:, j] += ties, for the outcomes o of the seasons.
Booked(f, i, j, o) ==
    [w |-> [sn \in 1..SEASONS |->
              [f.w[sn] EXCEPT ![i] = @ + o[sn].wins_i, ![j] = @ + o[sn].wins_j]],
     l |-> [sn \in 1..SEASONS |->
              [f.l[sn] EXCEPT ![i] = @ + o[sn].wins_j, ![j] = @ + o[sn].wins_i]],
     t |-> [sn \in 1..SEASONS |->
              [f.t[sn] EXCEPT ![i] = @ + o[sn].ties, ![j] = @ + o[sn].ties]]]

\* One pass of the loop over pairs: the draws of all seasons of the pair and
\* the six += on the columns i and j.
PairStep ==
    /\ ppc = "pairs"
    /\ pk < Len(pairs)
    /\ LET i == pairs[pk + 1][1]
           j == pairs[pk + 1][2]
           r == R[i][j]
           tie_prob == Clip01(bt.tie_pair[i][j])
           win_prob == Clip01(bt.P[i][j])
       IN  \E o \in [1..SEASONS -> PairOutcomes(r, tie_prob, win_prob)] :
              /\ draw' = [i |-> i, j |-> j,
                          ties |-> [sn \in 1..SEASONS |-> o[sn].ties],
                          non_ties |-> [sn \in 1..SEASONS |-> o[sn].non_ties],
                          wins_i |-> [sn \in 1..SEASONS |-> o[sn].wins_i],
                          wins_j |-> [sn \in 1..SEASONS |-> o[sn].wins_j]]
              /\ fin' = Booked(fin, i, j, o)
    /\ pk' = pk + 1
    /\ UNCHANGED << callv, genv, memo, mpc, runs, log, mc, teams, vs, h2h, cur, bt,
                    R, pairs, rank, ppc >>

\* win_pct as the plain quotient, without np.maximum(1, games_tot) and
\* without nan_to_num: 0 / 0 for a team without a game.
WinPctPlainQuotient(f) ==
    [sn \in 1..SEASONS |-> [i \in Idx |->
        LET g == f.w[sn][i] + f.l[sn][i] + f.t[sn][i]
        IN  Rat(2 * f.w[sn][i] + f.t[sn][i], 2 * g)]]

\* win_pct = (final_w + 0.5 * final_t) / np.maximum(1, games_tot), clipped
WinPct(f) ==
    [sn \in 1..SEASONS |-> [i \in Idx |->
        LET g == f.w[sn][i] + f.l[sn][i] + f.t[sn][i]
        IN  Clip01(Rat(2 * f.w[sn][i] + f.t[sn][i],
                       2 * Max2(1, g)))]]

\* noise = rng.normal(0, 1e-9): the scale is 1 / NoiseInv.
NoiseInv == 1000000000

\* A variate of the generator lies within NoiseMax scales of the mean; the
\* noise of a team is taken at the ends and the middle of that range.
NoiseMax == 40

NoiseLevels == {-NoiseMax, 0, NoiseMax}

\* x + k / inv < y + l / inv, for rates x, y and noise levels k, l.
\* With d = x - y and m = l - k over the common denominator this is
\* d * inv < m, that is d <= (m - 1) \div inv (the quotient rounds down).
NoisyLess(x, k, y, l, inv) ==
    x[1] * y[2] - y[1] * x[2] <= ((l - k) * x[2] * y[2] - 1) \div inv

\* Some noise of the teams at the places after k keeps the order ro falling
\* from place k on, the team at place k having noise l.
RECURSIVE FallsFrom(_, _, _, _, _)
FallsFrom(wp, ro, k, l, inv) ==
    \/ k = n
    \/ \E l2 \in NoiseLevels :
          /\ ~NoisyLess(wp[ro[k]], l, wp[ro[k + 1]], l2, inv)
          /\ FallsFrom(wp, ro, k + 1, l2, inv)

\* The orders argsort can give with noise of scale 1 / inv: the teams by
\* falling rate + noise for some noise of every team, teams of equal sum
\* in either order (w: the rates, worked out once).
NoisyOrders(wp, inv) ==
    UNION { { ro \in [Idx -> Idx] :
                /\ \A a, c \in Idx : a # c => ro[a] # ro[c]
                /\ \E l \in NoiseLevels : FallsFrom(w, ro, 1, l, inv) } :
            w \in {wp} }

\* ArgSorts with noise of scale 1.
ArgSortsCoarseNoise(wp) == NoisyOrders(wp, 1)

\* np.argsort(-(win_pct + noise)) of one season.
ArgSorts(wp) == NoisyOrders(wp, NoiseInv)

\* seed[s_idx, rank_order[s_idx]] = np.arange(1, n + 1)
SeedOf(ro) == [t \in Idx |-> CHOOSE k \in Idx : ro[k] = t]

\* A count of ranks that keeps the slot of rank 0 and loses that of rank n.
BinCountUnshifted(sd, i) ==
    [r \in Idx |-> Cardinality({ sn \in 1..SEASONS : sd[sn][i] = r - 1 })]

\* np.bincount(seed[:, i], minlength = n + 1)[1:]
BinCount(sd, i) ==
    [r \in Idx |-> Cardinality({ sn \in 1..SEASONS : sd[sn][i] = r })]

\* Lines 1525-1536: the current record is added to every season and the
\* rates are worked out.
Totals ==
    /\ ppc = "pairs"
    /\ pk = Len(pairs)
    /\ LET f == [w |-> [sn \in 1..SEASONS |-> [i \in Idx |-> fin.w[sn][i] + cur.w[i]]],
                 l |-> [sn \in 1..SEASONS |-> [i \in Idx |-> fin.l[sn][i] + cur.l[i]]],
                 t |-> [sn \in 1..SEASONS |-> [i \in Idx |-> fin.t[sn][i] + cur.t[i]]]]
       IN  /\ fin' = f
           /\ rank' = [rank EXCEPT !.win_pct = WinPct(f)]
    /\ ppc' = "totals"
    /\ UNCHANGED << callv, genv, memo, mpc, runs, log, mc, teams, vs, h2h, cur, bt,
                    R, pairs, pk, draw >>

\* The ranks and their shares for the orders ro of the seasons.
Ranked(wp, ro) ==
    LET sd == [sn \in 1..SEASONS |-> SeedOf(ro[sn])]
        cnt == [i \in Idx |-> BinCount(sd, i)]
    IN  [win_pct |-> wp, rank_order |-> ro, seed |-> sd, counts |-> cnt,
         rank_pct |-> [i \in Idx |-> [r \in Idx |->
                         Rat(cnt[i][r] * 100, SEASONS)]]]

\* RankSeasons with the sort key -win_pct assigned to win_pct itself.
RankSeasonsInPlace ==
    /\ ppc = "totals"
    /\ \E ro \in Product([sn \in 1..SEASONS |-> ArgSorts(rank.win_pct[sn])]) :
          rank' = Ranked([sn \in 1..SEASONS |-> [i \in Idx |->
                            Rat(-rank.win_pct[sn][i][1], rank.win_pct[sn][i][2])]],
                         ro)
    /\ ppc' = "ranked"
    /\ UNCHANGED << callv, genv, memo, mpc, runs, log, mc, teams, vs, h2h, cur, bt,
                    R, pairs, pk, draw, fin >>

\* Lines 1538-1549: the ranks of every season, from win_pct + noise, and the
\* share of seasons a team spends at every rank.  The sum is a temporary:
\* final_w, final_l, final_t and win_pct are not assigned.
RankSeasons ==
    /\ ppc = "totals"
    /\ \E ro \in Product([sn \in 1..SEASONS |-> ArgSorts(rank.win_pct[sn])]) :
          rank' = Ranked(rank.win_pct, ro)
    /\ ppc' = "ranked"
    /\ UNCHANGED << callv, genv, memo, mpc, runs, log, mc, teams, vs, h2h, cur, bt,
                    R, pairs, pk, draw, fin >>

PairInit ==
    /\ IdleCall
    /\ pos = 0 /\ tape = <<>> /\ memo = FALSE
    /\ mpc = "none" /\ runs = 0 /\ log = <<>>
    /\ mc = NoCall
    /\ \E lg \in Leagues :
          /\ teams = lg.teams
          /\ vs = lg
          /\ cur = Standings(lg)
    /\ h2h = [W |-> <<>>, L |-> <<>>, T |-> <<>>]
    /\ bt = [s |-> <<>>, iters |-> 0, P |-> <<>>, tie_pair |-> <<>>]
    /\ R = <<>>
    /\ pairs = <<>>
    /\ pk = 0
    /\ draw = [i |-> 0, j |-> 0, ties |-> <<>>, non_ties |-> <<>>,
               wins_i |-> <<>>, wins_j |-> <<>>]
    /\ fin = [w |-> <<>>, l |-> <<>>, t |-> <<>>]
    /\ rank = [win_pct |-> <<>>, rank_order |-> <<>>, seed |-> <<>>,
               counts |-> <<>>, rank_pct |-> <<>>]
    /\ ppc = "fetch"

PairNext ==
    \/ StopNoTable
    \/ Parse
    \/ Symmetrize
    \/ Estimate
    \/ PairStep
    \/ Totals
    \/ RankSeasons

SpecPair == PairInit /\ [][PairNext]_vars

\* =================================================================
\* Properties of calculate_championship_probability and
\* calculate_playoff_probability (specification Spec)
\* =================================================================

\* Seasons simulated by the chunks processed so far.
SeasonsDone == Min2(b * batch, num_simulations)

\* The call went into its chunk loop.
InLoopPath == pc \in {"loop", "returned", "raised"} /\ prog # <<>>

\* The distinct entries of a row of picked.
RowSet(r) == { r[k] : k \in 1..Len(r) }

C6_FinishedLeaderAlwaysChampion ==
    (fn = "champ" /\ pc = "returned" /\ T > 0) =>
        \A t \in Teams :
           (n_remain[t] = 0 /\ \A u \in Teams \ {t} : current_wins[u] < current_wins[t])
              => \A u \in Teams :
                    RatEq(ret[names[u]], IF u = t THEN Rat(100, 1) ELSE Rat(0, 1))

\* The most wins team u can add in a simulated season.
MaxGain(u) == IF n_remain[u] <= 0 \/ p[u] <= 0 THEN 0 ELSE n_remain[u]

\* C6 amended: a team with no game left whose current wins exceed what every
\* other team can still reach (current wins plus remaining games, for a
\* team with p > 0) is returned 100 and every other team 0, whenever the
\* call returns.
C6_UncatchableLeaderIsChampion ==
    (fn = "champ" /\ pc = "returned" /\ T > 0) =>
        \A t \in Teams :
           (n_remain[t] = 0 /\ \A u \in Teams \ {t} :
                                  current_wins[u] + MaxGain(u) < current_wins[t])
              => \A u \in Teams :
                    RatEq(ret[names[u]], IF u = t THEN Rat(100, 1) ELSE Rat(0, 1))

\* A finished leader out of reach of a team that was drawn for and won a
\* game in the last chunk.
C6_Witness ==
    /\ fn = "champ" /\ pc = "returned" /\ prog # <<>>
    /\ \E t \in Teams :
          /\ n_remain[t] = 0
          /\ \A u \in Teams \ {t} : current_wins[u] + MaxGain(u) < current_wins[t]
          /\ \E u \in Teams \ {t} :
                Drawn(u) /\ \E s \in 1..Len(final_wins) :
                               final_wins[s][u] > current_wins[u]

\* A team of the input frame lacks its wins, its rate or its remaining games.
HasMissingValue(df) ==
    \E i \in 1..Len(df.rows) :
       \/ df.rows[i].W.k = "na"
       \/ df.rows[i].p_wpct.k = "na"
       \/ df.rows[i].remain.k = "na"

\* C9 as stated: an input with no team, without a required column or with a
\* team whose wins, rate or remaining games are missing is rejected: the
\* call returns the empty mapping, draws nothing and reports no progress.
C9_InvalidInputRejected ==
    (pc # "call" /\ (IsEmpty(teams_df) \/ MissingCols(teams_df) # {}
                       \/ HasMissingValue(teams_df))) =>
        /\ pc = "returned"
        /\ ret = EmptyMap
        /\ ndraws = 0
        /\ prog = <<>>
        /\ final_wins = <<>>

\* C10: when every team has no game left, calculate_championship_probability
\* returns at once, without a draw, a chunk or a progress report: 100 for
\* exactly one team, which has the most current wins, 0 for the others,
\* whatever the trial count.
C10_AllCompleteShortCircuit ==
    (fn = "champ" /\ pc # "call" /\ Accepted(teams_df)
       /\ AllRemainZero(CleanedRows(teams_df))) =>
        /\ pc = "returned"
        /\ ndraws = 0 /\ b = 0 /\ final_wins = <<>> /\ prog = <<>>
        /\ DOMAIN ret = NameSet
        /\ \E t \in Teams :
              /\ \A u \in Teams : current_wins[u] <= current_wins[t]
              /\ \A u \in Teams :
                    ret[names[u]] = IF u = t THEN Rat(100, 1) ELSE Rat(0, 1)

\* Two finished teams level on the most wins, and a trial count of zero.
C10_Witness ==
    /\ fn = "champ" /\ pc = "returned" /\ prog = <<>>
    /\ T = 2 /\ current_wins[1] = current_wins[2]
    /\ num_simulations = 0
    /\ ret # EmptyMap

\* =================================================================
\* Properties of monte_carlo_expected_wins (specification SpecMC)
\* =================================================================

\* The last call left the generator as it found it.
MCNothingDrawn == pos = mc.pos0 /\ tape = mc.tape0

\* C7: monte_carlo_expected_wins returns exactly 0 whenever p <= 0 or
\* n_games = 0 (n_games >= 0), for every trial count, and draws no variate.
C7_ZeroWithoutDraw ==
    (mc.called /\ mc.n_games >= 0 /\ (mc.p <= 0 \/ mc.n_games = 0)) =>
        /\ RatEq(mc.ret, Rat(0, 1))
        /\ MCNothingDrawn

\* After a call that drew, a call with p <= 0, the most games and the most
\* trials.
C7_Witness ==
    /\ mc.called /\ mc.p <= 0
    /\ mc.n_games = MaxGames /\ mc.n_sims = MaxMCSims
    /\ mc.pos0 > 0

\* C8: monte_carlo_expected_wins returns exactly n_games whenever p >= 1
\* (n_games >= 0), for every trial count, and draws no variate.
C8_AllWinsWithoutDraw ==
    (mc.called /\ mc.n_games >= 0 /\ mc.p >= PDen) =>
        /\ RatEq(mc.ret, Rat(mc.n_games, 1))
        /\ MCNothingDrawn

\* After a call that drew, a call with p above 1 and the most games.
C8_Witness ==
    /\ mc.called /\ mc.p > PDen
    /\ mc.n_games = MaxGames /\ mc.n_sims = MaxMCSims
    /\ mc.pos0 > 0

\* =================================================================
\* Reproducibility of the simulators (specification SpecMain)
\* =================================================================

\* Two returned calls of the same function with the same table and the
\* same trial count.
SameCall(x, y) ==
    /\ x.fn = y.fn
    /\ x.teams_df = y.teams_df
    /\ x.num_simulations = y.num_simulations

OpenPairs == { c \in Idx \X Idx : c[1] < c[2] /\ R[c[1]][c[2]] > 0 }

\* One pass of the loop over pairs was taken by this step.
PairStepTaken == ppc = "pairs" /\ pk' = pk + 1

\* The draws of the pass, season by season, are counts that add up to the
\* games the pair has left, and the pass books them once: the wins of i as
\* losses of j, the wins of j as losses of i, the ties for both, nothing for
\* any other team.
PairStepBooked ==
    LET i == draw'.i
        j == draw'.j
    IN  /\ << i, j >> = pairs[pk']
        /\ << i, j >> \in OpenPairs
        /\ \A sn \in 1..SEASONS :
              /\ draw'.ties[sn] \in Nat
              /\ draw'.wins_i[sn] \in Nat
              /\ draw'.wins_j[sn] \in Nat
              /\ draw'.wins_i[sn] + draw'.wins_j[sn] + draw'.ties[sn] = R[i][j]
              /\ fin'.w[sn][i] - fin.w[sn][i] = draw'.wins_i[sn]
              /\ fin'.l[sn][j] - fin.l[sn][j] = draw'.wins_i[sn]
              /\ fin'.w[sn][j] - fin.w[sn][j] = draw'.wins_j[sn]
              /\ fin'.l[sn][i] - fin.l[sn][i] = draw'.wins_j[sn]
              /\ fin'.t[sn][i] - fin.t[sn][i] = draw'.ties[sn]
              /\ fin'.t[sn][j] - fin.t[sn][j] = draw'.ties[sn]
              /\ \A k \in Idx \ {i, j} :
                    /\ fin'.w[sn][k] = fin.w[sn][k]
                    /\ fin'.l[sn][k] = fin.l[sn][k]
                    /\ fin'.t[sn][k] = fin.t[sn][k]

\* The list of pairs holds every pair with games left exactly once.
PairsListedOnce ==
    ppc \in {"pairs", "totals", "ranked"} =>
        /\ { pairs[k] : k \in 1..Len(pairs) } = OpenPairs
        /\ Len(pairs) = Cardinality(OpenPairs)

\* C1: in the pairwise simulation every pair (i, j), i < j, with R[i][j] > 0
\* is drawn once; in every season the wins drawn for i, the wins drawn for j
\* and the ties drawn are non-negative integers that add up to R[i][j]
\* exactly, and the draw is booked as a win of one team and a loss of the
\* other (a tie for both).
C1_PairDrawsAddUpToRemaining ==
    [](PairsListedOnce) /\ [][PairStepTaken => PairStepBooked]_vars

\* A pass over a pair has drawn, in one season, a tie, a win of i and a win
\* of j.
C1_Witness ==
    /\ ppc = "pairs" /\ pk >= 1
    /\ \E sn \in 1..SEASONS :
          draw.ties[sn] > 0 /\ draw.wins_i[sn] > 0 /\ draw.wins_j[sn] > 0

\* C4: in the pairwise simulation the ranks of the n teams in a season are a
\* permutation of 1..n; in the matrix of rank counts every row (team) and
\* every column (rank) sums to the number of seasons, and in the matrix of
\* percentages every row and every column sums to 100.
C4_RanksArePermutation ==
    ppc = "ranked" =>
        /\ \A sn \in 1..SEASONS :
              /\ { rank.seed[sn][i] : i \in Idx } = Idx
              /\ \A r \in Idx :
                    Cardinality({ i \in Idx : rank.seed[sn][i] = r }) = 1
        /\ \A i \in Idx :
              /\ SumSeq(rank.counts[i]) = SEASONS
              /\ RatEq(RatSumMap(rank.rank_pct[i], Idx), Rat(100, 1))
        /\ \A r \in Idx :
              /\ SumSeq([i \in Idx |-> rank.counts[i][r]]) = SEASONS
              /\ RatEq(RatSumMap([i \in Idx |-> rank.rank_pct[i][r]], Idx),
                       Rat(100, 1))

\* Three teams were ranked, two of them with the same rate in a season, and
\* two seasons ended in different orders.
C4_Witness ==
    /\ ppc = "ranked" /\ n = 3
    /\ \E sn \in 1..SEASONS : \E i, j \in Idx :
          i # j /\ RatEq(rank.win_pct[sn][i], rank.win_pct[sn][j])
    /\ \E sn, tn \in 1..SEASONS : rank.rank_order[sn] # rank.rank_order[tn]

\* =================================================================
\* Ties for the best record and the end of a call (specification Spec)
\* =================================================================

\* A sequence in reverse order: the same teams listed the other way round.
Reversed(sq) == [k \in 1..Len(sq) |-> sq[Len(sq) + 1 - k]]

\* C11: when teams tie for the best record the credited team does not depend
\* on the order of the teams in the table: a season of the chunk credits the
\* same team when the teams are listed in reverse order, and so does the
\* return taken when all games are complete.
C11_TieBreakIndependentOfOrder ==
    /\ (fn = "champ" /\ pc = "loop" /\ picked # <<>>) =>
          \A s \in 1..Len(final_wins) :
              names[picked[s][1]] =
                  Reversed(names)[ChampPick(<< Reversed(final_wins[s]) >>)[1][1]]
    /\ (fn = "champ" /\ pc = "returned" /\ prog = <<>> /\ names # <<>>) =>
          ret = Winners(Reversed(CleanedRows(teams_df)))

\* C12: a call of calculate_championship_probability or
\* calculate_playoff_probability never ends by raising an error, whatever the
\* table and the trial count (0 included).
C12_NeverRaises == pc # "raised"

\* =================================================================
\* The Bradley-Terry estimation (specification SpecPair)
\* =================================================================

\* The section has gone past the fetch of the head-to-head table.
PairEstimated == ppc \in {"pairs", "totals", "ranked"}

\* No game is recorded between any two teams.
NoGameRecorded == \A i, j \in Idx : G_played[i][j] = 0

\* C13 as stated: a pairwise record that is absent or holds no game at all is
\* not estimated and no season is simulated on it; a pass of the simulation
\* over a pair is taken only when a game is recorded.
C13_NoSimulationWithoutGames ==
    (PairEstimated \/ pk >= 1) => (vs.tables >= 2 /\ ~NoGameRecorded)

\* C13 amended: without a head-to-head table (no page, or fewer than two
\* tables on it) the section stops with an error before any estimation or
\* simulation; a table that is there is estimated and simulated, and when it
\* records no game the strengths are equal, every P[i][j] is 1/2, every tie
\* rate is 0 and every pair has all its games left.
C13_StopsOnlyWithoutTable ==
    /\ vs.tables < 2 =>
          /\ ppc \in {"fetch", "stopped"}
          /\ bt.s = <<>> /\ pk = 0 /\ fin.w = <<>>
    /\ ppc \in {"parsed", "symmetric", "pairs", "totals", "ranked"} =>
          vs.tables >= 2
    /\ (PairEstimated /\ NoGameRecorded) =>
          \A i, j \in Idx :
             /\ bt.s[i] = bt.s[j]
             /\ i # j => /\ RatEq(bt.P[i][j], Rat(1, 2))
                         /\ RatEq(bt.tie_pair[i][j], Rat(0, 1))
                         /\ R[i][j] = TARGET_PER_PAIR

\* The section stopped on a page with a single table.
C13_Witness == ppc = "stopped" /\ vs.tables = 1

\* The record of the scenario: the first team beat the second 10-0, the
\* second beat the third 10-0, the first and the third have not played.
Scenario17 ==
    /\ n = 3
    /\ h2h.W[1][2] = 10 /\ h2h.L[1][2] = 0 /\ h2h.T[1][2] = 0
    /\ h2h.W[2][3] = 10 /\ h2h.L[2][3] = 0 /\ h2h.T[2][3] = 0
    /\ G_played[1][3] = 0

\* C17: on the record where A beat B 10-0, B beat C 10-0 and A and C have not
\* played, the fitted strengths fall, s[A] > s[B] > s[C], and P[A][C] lies
\* strictly between 1/2 and 1.
C17_TransitiveStrengths ==
    (PairEstimated /\ Scenario17) =>
        /\ bt.s[1] > bt.s[2] /\ bt.s[2] > bt.s[3]
        /\ bt.P[1][3][1] * 2 > bt.P[1][3][2]
        /\ bt.P[1][3][1] < bt.P[1][3][2]

\* The scenario was estimated in max_iter rounds without settling.
C17_Witness == PairEstimated /\ Scenario17 /\ bt.iters = max_iter

\* =================================================================
\* Both model paths
\* =================================================================
\* A simulator call or the Bradley-Terry section, whichever is started.
PathsInit == Init \/ PairInit

PathsNext == Next \/ PairNext

SpecPaths == PathsInit /\ [][PathsNext]_vars

\* Team i has played its TARGET_PER_PAIR games against every other team.
PairsPlayedOut(i) == \A j \in Idx \ {i} : G_played[i][j] >= TARGET_PER_PAIR

\* Team i is in the pair of entry k of pairs.
InPair(k, i) == pairs[k][1] = i \/ pairs[k][2] = i

EvenChunks(k) == (k + 1) \div 2

\* C15 as stated: a report follows every processed chunk, so when chunk b is
\* about to start the opening report and one report per earlier chunk have
\* been made, and at the return one per chunk (the closing report standing
\* for the last chunk).
C15_ReportAfterEveryChunk ==
    InLoopPath =>
        /\ (pc = "loop" /\ b < n_batches) => Len(prog) >= 1 + b
        /\ pc = "returned" => Len(prog) >= 1 + n_batches

\* C15 amended: a report follows the chunks with an even index only, with
\* the value (b + 1) / n_batches; a chunk with an odd index is followed by
\* none, and 1.0 is reported once after the loop.
C15_ReportAfterEvenChunks ==
    InLoopPath =>
        /\ Len(prog) = 1 + EvenChunks(b) + (IF pc = "loop" THEN 0 ELSE 1)
        /\ \A k \in 1..EvenChunks(b) :
              RatEq(prog[1 + k], Rat(2 * k - 1, n_batches))
        /\ pc # "loop" => RatEq(prog[Len(prog)], Rat(1, 1))

\* A call of three chunks has returned: the second chunk went unreported.
C15_Witness ==
    /\ pc = "returned" /\ n_batches = 3
    /\ Len(prog) = 4

\* C16: for a trial count of at least 1, the values reported during one call
\* start at 0, never decrease, lie within [0, 1], and the last one, at the
\* return, is 1.
C16_ProgressMonotoneWithinUnit ==
    (InLoopPath /\ num_simulations >= 1) =>
        /\ RatEq(prog[1], Rat(0, 1))
        /\ \A k \in 1..Len(prog) :
              /\ prog[k][2] > 0
              /\ RatLe(Rat(0, 1), prog[k]) /\ RatLe(prog[k], Rat(1, 1))
        /\ \A k \in 1..(Len(prog) - 1) : RatLe(prog[k], prog[k + 1])
        /\ pc = "returned" => RatEq(prog[Len(prog)], Rat(1, 1))

\* A returned call that reported a value strictly between 0 and 1 on its way.
C16_Witness ==
    /\ pc = "returned" /\ num_simulations >= 1 /\ prog # <<>>
    /\ \E k \in 1..Len(prog) :
          ~RatLe(prog[k], Rat(0, 1)) /\ ~RatLe(Rat(1, 1), prog[k])

\* =================================================================
\* Probabilities of the pairwise model
\* =================================================================
\* x is a number (not NaN, not infinite) within [0, 1].
IsProbability(x) == x[2] > 0 /\ 0 <= x[1] /\ x[1] <= x[2]

\* C18: whatever the record, one without any game included, every entry of
\* P and of tie_pair is a number within [0, 1], both diagonals are zero, and
\* so are the two probabilities a pass of the loop over pairs reads.
C18_ProbabilitiesWithinUnit ==
    PairEstimated =>
        /\ \A i, j \in Idx :
              /\ IsProbability(bt.P[i][j])
              /\ IsProbability(bt.tie_pair[i][j])
              /\ i = j => bt.P[i][j][1] = 0 /\ bt.tie_pair[i][j][1] = 0
        /\ \A k \in 1..Len(pairs) :
              /\ IsProbability(Clip01(bt.P[pairs[k][1]][pairs[k][2]]))
              /\ IsProbability(Clip01(bt.tie_pair[pairs[k][1]][pairs[k][2]]))

\* A record without any game has been estimated and a pair of it simulated.
C18_Witness == PairEstimated /\ NoGameRecorded /\ pk >= 1

\* =================================================================
\* Play-off places
\* =================================================================
\* C19: in every season of calculate_playoff_probability no team marked as
\* qualifying has fewer final wins than a team left unmarked, and with at
\* most 5 teams in the table every team is marked.
C19_MarkedTeamsAreTopK ==
    (fn = "po" /\ InLoopPath) =>
        \A s \in 1..Len(picked) :
           /\ \A i \in RowSet(picked[s]) : \A j \in Teams \ RowSet(picked[s]) :
                 final_wins[s][i] >= final_wins[s][j]
           /\ T <= TopK => RowSet(picked[s]) = Teams

\* Six teams, five places: a season in which the team left out ended with
\* fewer wins than every team marked.
C19_Witness ==
    /\ fn = "po" /\ pc \in {"loop", "returned"} /\ T = TopK + 1
    /\ \E s \in 1..Len(picked) :
          \E j \in Teams \ RowSet(picked[s]) : \A i \in RowSet(picked[s]) :
              final_wins[s][i] > final_wins[s][j]

\* =================================================================
\* Ranking noise
\* =================================================================
\* C20: in every simulated season of the pairwise path a team with a
\* strictly higher rate (wins + 0.5 * ties) / games than another team gets a
\* strictly smaller rank; the noise decides only between equal rates.
C20_NoiseOrdersEqualRatesOnly ==
    ppc = "ranked" =>
        \A sn \in 1..SEASONS : \A i, j \in Idx :
           ~RatLe(rank.win_pct[sn][i], rank.win_pct[sn][j])
              => rank.seed[sn][i] < rank.seed[sn][j]

\* A ranked season with two teams of different rates and two teams of equal
\* rate, the later one of the table ranked ahead.
C20_Witness ==
    /\ ppc = "ranked"
    /\ \E sn \in 1..SEASONS :
          /\ \E i, j \in Idx :
                ~RatLe(rank.win_pct[sn][i], rank.win_pct[sn][j])
          /\ \E i, j \in Idx :
                /\ i < j
                /\ RatEq(rank.win_pct[sn][i], rank.win_pct[sn][j])
                /\ rank.seed[sn][j] < rank.seed[sn][i]

\* =================================================================
\* The ranking step
\* =================================================================
\* The step from the totals to the ranks.
RankStepTaken == ppc = "totals" /\ ppc' = "ranked"

\* C21: the ranking step leaves final_w, final_l, final_t and win_pct as
\* they were; the noise goes into the value that is sorted only.
C21_RankingLeavesRecordsAlone ==
    [][RankStepTaken => (fin' = fin /\ rank'.win_pct = rank.win_pct)]_vars

\* Seasons are ranked in which a team has a rate above 0 and two teams of
\* equal rate were put in an order, after some pair was played.
C21_Witness ==
    /\ ppc = "ranked" /\ pk >= 1
    /\ \E sn \in 1..SEASONS :
          /\ \E i \in Idx : rank.win_pct[sn][i][1] > 0
          /\ \E i, j \in Idx :
                /\ i # j
                /\ RatEq(rank.win_pct[sn][i], rank.win_pct[sn][j])

\* =================================================================
\* Seasons held at once
\* =================================================================
\* C22 as stated: neither path ever holds the records of more than batch
\* seasons in its result matrices.
C22_AtMostBatchSeasonsHeld ==
    /\ Len(final_wins) <= batch
    /\ Len(fin.w) <= batch /\ Len(fin.l) <= batch /\ Len(fin.t) <= batch

\* C22 amended: the per-team simulators hold the seasons of one chunk, at
\* most batch of them; the pairwise simulation is not chunked: final_w,
\* final_l and final_t hold all SEASONS seasons from their allocation on and
\* every pass of the loop over pairs draws for all of them.
C22_OnlyPerTeamPathChunked ==
    /\ Len(final_wins) <= batch /\ Len(picked) <= batch
    /\ (pc = "loop" /\ b >= 1) =>
          Len(final_wins) = ThisBatch(b - 1, num_simulations)
    /\ PairEstimated =>
          /\ Len(fin.w) = SEASONS /\ Len(fin.l) = SEASONS /\ Len(fin.t) = SEASONS
          /\ pk >= 1 => /\ Len(draw.ties) = SEASONS
                        /\ Len(draw.wins_i) = SEASONS

\* A pair has been simulated with more seasons in the matrices than a chunk
\* of the per-team simulators has.
C22_Witness == ppc = "pairs" /\ pk >= 1 /\ Len(fin.w) > batch

\* =================================================================
\* The cells a pair writes
\* =================================================================
\* The cells of final_w, final_l, final_t that the pass of entry k of pairs
\* adds to: the columns of its two teams, in every season.
CellsOf(k) ==
    {"w", "l", "t"} \X (1..SEASONS) \X {pairs[k][1], pairs[k][2]}

\* The entries k1 and k2 of pairs have a team in common.
ShareTeam(k1, k2) ==
    {pairs[k1][1], pairs[k1][2]} \cap {pairs[k2][1], pairs[k2][2]} # {}

\* The cells whose value a step changes.
ChangedCells ==
    { c \in {"w", "l", "t"} \X (1..SEASONS) \X Idx :
        fin'[c[1]][c[2]][c[3]] # fin[c[1]][c[2]][c[3]] }

\* C23 as stated: the passes of two different pairs add to disjoint cells.
C23_PairsWriteDisjointCells ==
    PairEstimated =>
        \A k1, k2 \in 1..Len(pairs) :
           k1 # k2 => CellsOf(k1) \cap CellsOf(k2) = {}

\* C23 amended: a pass changes cells in the columns of its two teams only;
\* the passes of two pairs add to disjoint cells exactly when the pairs
\* have no team in common, and two pairs with a common team both add to
\* its column.
C23_DisjointWithoutCommonTeam ==
    /\ [](PairEstimated =>
             \A k1, k2 \in 1..Len(pairs) :
                k1 # k2 => (CellsOf(k1) \cap CellsOf(k2) = {} <=> ~ShareTeam(k1, k2)))
    /\ [][PairStepTaken => ChangedCells \subseteq CellsOf(pk + 1)]_vars

\* Two passes in a row were for pairs with a common team, and in some
\* season its column holds more games than the later pass alone added.
C23_Witness ==
    /\ ppc = "pairs" /\ pk >= 2
    /\ ShareTeam(pk - 1, pk)
    /\ \E c \in {pairs[pk - 1][1], pairs[pk - 1][2]} \cap {pairs[pk][1], pairs[pk][2]} :
          \E sn \in 1..SEASONS :
             fin.w[sn][c] + fin.l[sn][c] + fin.t[sn][c] > R[pairs[pk][1]][pairs[pk][2]]

\* =================================================================
\* Symmetry of the head-to-head matrices
\* =================================================================
\* The symmetry correction has run.
Symmetrized == ppc \in {"symmetric", "pairs", "totals", "ranked"}

\* C24: after the symmetry correction, whatever the table held, W[i][j] =
\* L[j][i], L[i][j] = W[j][i] and T[i][j] = T[j][i] for all i # j, and
\* G_played is symmetric.
C24_SkewSymmetricAfterCorrection ==
    Symmetrized =>
        \A i, j \in Idx : i # j =>
           /\ h2h.W[i][j] = h2h.L[j][i]
           /\ h2h.L[i][j] = h2h.W[j][i]
           /\ h2h.T[i][j] = h2h.T[j][i]
           /\ G_played[i][j] = G_played[j][i]

\* The correction has run on a table whose cell below the diagonal held
\* games but not the mirror image of the cell above.
C24_Witness ==
    /\ ppc = "symmetric"
    /\ \E i, j \in Idx :
          /\ i < j
          /\ ParsedMatrices(vs).W[j][i] + ParsedMatrices(vs).L[j][i] > 0
          /\ ParsedMatrices(vs).W[j][i] # ParsedMatrices(vs).L[i][j]

\* =================================================================
\* The remaining games of the pairs
\* =================================================================
\* C25: R[i][j] = max(0, TARGET_PER_PAIR - G_played[i][j]) for i # j, the
\* diagonal of R is 0, every entry is a non-negative integer and R is
\* symmetric; pairs holds every unordered pair with R > 0 once, pass k of
\* the loop is for entry k, and the totals are taken after one pass for
\* every entry.
C25_RemainingMatrixAndPairs ==
    PairEstimated =>
        /\ \A i, j \in Idx :
              /\ R[i][j] \in Nat
              /\ R[i][j] = R[j][i]
              /\ i = j => R[i][j] = 0
              /\ i # j => R[i][j] = IF G_played[i][j] >= TARGET_PER_PAIR THEN 0
                                    ELSE TARGET_PER_PAIR - G_played[i][j]
        /\ \A i, j \in Idx :
              (i < j /\ R[i][j] > 0) <=>
                 Cardinality({ k \in 1..Len(pairs) : pairs[k] = << i, j >> }) = 1
        /\ \A k \in 1..Len(pairs) : pairs[k][1] < pairs[k][2]
        /\ \A k1, k2 \in 1..Len(pairs) : pairs[k1] = pairs[k2] => k1 = k2
        /\ pk <= Len(pairs)
        /\ pk >= 1 => << draw.i, draw.j >> = pairs[pk]
        /\ ppc \in {"totals", "ranked"} => pk = Len(pairs)

\* The totals are taken in a league where one pair had played more than
\* TARGET_PER_PAIR games and another pair had games left.
C25_Witness ==
    /\ ppc = "totals" /\ pk >= 1
    /\ \E i, j \in Idx : G_played[i][j] > TARGET_PER_PAIR
\* =================================================================
\* The strengths after k rounds of update, started from the uniform vector.
RECURSIVE BtAfter(_)
BtAfter(k) ==
    IF k = 0 THEN BtStart
    ELSE CHOOSE v \in { BtUpdate(u) : u \in {BtAfter(k - 1)} } : TRUE

\* The change of the strengths in round k.
BtChange(k) == BtMaxDiff(BtAfter(k), BtAfter(k - 1))

\* C26: bt_fit ends after at most max_iter rounds of update: it returns in
\* the first round whose largest change of a strength is below the
\* tolerance, runs max_iter rounds when there is no such round, and in both
\* cases hands back a vector with one strength for every team, the one of
\* its last round.  bt is written by Estimate alone, so the fit is looked at
\* in the state Estimate leaves.
C26_FitEndsWithinMaxIter ==
    (ppc = "pairs" /\ pk = 0) =>
        /\ bt.iters \in 1..max_iter
        /\ \A k \in 1..(bt.iters - 1) : BtChange(k) >= Tol
        /\ bt.iters < max_iter => BtChange(bt.iters) < Tol
        /\ DOMAIN bt.s = Idx
        /\ \A i \in Idx : bt.s[i] \in Nat
        /\ bt.s = BtAfter(bt.iters)

\* The fit of a league with games played has returned before its last round.
C26_Witness ==
    /\ ppc = "pairs" /\ pk = 0
    /\ bt.iters < max_iter
    /\ \E i, j \in Idx : G_played[i][j] > 0
\* =================================================================
\* A team without a game against any opponent.
Idle(i) == \A j \in Idx : i # j => G_played[i][j] = 0

\* new_s before np.clip and the division by the sum: w_i / denom, or s[i]
\* for denom = 0.
BtRaw(s) ==
    [i \in Idx |->
        IF BtDenom(s, i) > 0
        THEN (BtWins2(i) * Unit * Unit) \div (2 * BtDenom(s, i))
        ELSE s[i]]

\* The sum update divides by: that of the entries of new_s after np.clip.
BtClippedSum(s) ==
    LET raw == BtRaw(s) IN SumSeq([i \in Idx |-> Max2(raw[i], ClipFloor)])

\* C27 as stated: in every round of the fit a team without games comes out
\* of update with the strength it went in with.
C27_IdleTeamKeepsStrength ==
    (ppc = "pairs" /\ pk = 0) =>
        \A k \in 1..bt.iters : \A i \in Idx :
            Idle(i) => BtAfter(k)[i] = BtAfter(k - 1)[i]

\* C27, amended: in every round a team without games has denom = 0, is not
\* divided, and gets its previous strength as the entry of new_s; update
\* then clips the entries from below and divides them by their sum, so the
\* strength it yields is the previous one (at least the floor) over that
\* sum, and the strength is kept when the sum is one.
C27_IdleTeamKeepsShareOfSum ==
    (ppc = "pairs" /\ pk = 0) =>
        \A k \in 1..bt.iters : \A i \in Idx :
            Idle(i) =>
                \E prev \in {BtAfter(k - 1)} :
                    /\ BtDenom(prev, i) = 0
                    /\ BtRaw(prev)[i] = prev[i]
                    /\ BtClippedSum(prev) > 0
                    /\ BtAfter(k)[i] =
                          (Max2(prev[i], ClipFloor) * Unit) \div BtClippedSum(prev)
                    /\ BtClippedSum(prev) = Unit => BtAfter(k)[i] = prev[i]

\* The fit has run for a league in which one team has no game while the
\* other teams have played each other, and the sum update divided by in the
\* first round was not one.
C27_Witness ==
    /\ ppc = "pairs" /\ pk = 0
    /\ \E i \in Idx : Idle(i)
    /\ \E i, j \in Idx : G_played[i][j] > 0
    /\ BtClippedSum(BtStart) # Unit
\* =================================================================
\* C28: the rate the ranking uses is (wins + 0.5 * ties) over (wins +
\* losses + ties) of the final record for a team with games, lies between 0
\* and 1 for every team, and is the number 0 (not 0 / 0) for a team whose
\* final record has no game.
C28_RankingRateIsWinShare ==
    (ppc \in {"totals", "ranked"}) =>
        \A sn \in 1..SEASONS : \A i \in Idx :
            LET g == fin.w[sn][i] + fin.l[sn][i] + fin.t[sn][i]
                r == rank.win_pct[sn][i]
            IN  /\ r[2] > 0
                /\ 0 <= r[1] /\ r[1] <= r[2]
                /\ g > 0 => RatEq(r, Rat(2 * fin.w[sn][i] + fin.t[sn][i], 2 * g))
                /\ g = 0 => r[1] = 0

\* The rates are taken in a season in which one team ends without a game
\* and another team with wins, losses or ties.
C28_Witness ==
    /\ ppc = "totals"
    /\ \E sn \in 1..SEASONS : \E i, j \in Idx :
          /\ fin.w[sn][i] + fin.l[sn][i] + fin.t[sn][i] = 0
          /\ fin.w[sn][j] + fin.l[sn][j] + fin.t[sn][j] > 0
          /\ fin.t[sn][j] > 0
\* =================================================================
\* C29: in every season of a chunk of either per-team simulator, the final
\* wins of a team lie between its current wins and its current wins plus
\* its remaining games (which are never negative after the cleaning); a
\* team with p <= 0 ends at its current wins and a team with p >= 1 at its
\* current wins plus its remaining games.
C29_FinalWinsWithinReach ==
    \A s \in 1..Len(final_wins) : \A t \in Teams :
        /\ n_remain[t] >= 0
        /\ current_wins[t] <= final_wins[s][t]
        /\ final_wins[s][t] <= current_wins[t] + n_remain[t]
        /\ p[t] <= 0 => final_wins[s][t] = current_wins[t]
        /\ p[t] >= PDen => final_wins[s][t] = current_wins[t] + n_remain[t]

\* A season has been simulated for a table with a team of rate 0 and a team
\* of rate 1 that both had games left, and with a team of a rate in between
\* that won a game.
C29_Witness ==
    /\ pc = "loop" /\ b >= 1
    /\ \E s \in 1..Len(final_wins) : \E t1, t2, t3 \in Teams :
          /\ p[t1] <= 0 /\ n_remain[t1] > 0
          /\ p[t2] >= PDen /\ n_remain[t2] > 0
          /\ Drawn(t3) /\ final_wins[s][t3] > current_wins[t3]
\* =================================================================
\* What the simulation has added to the record of team i in season sn: the
\* final arrays, less the current record once it has been added to them.
Added(f, c, sn, i) ==
    f[sn][i] - (IF ppc \in {"totals", "ranked"} THEN c[i] ELSE 0)

AddedGames(sn, i) ==
    Added(fin.w, cur.w, sn, i) + Added(fin.l, cur.l, sn, i)
        + Added(fin.t, cur.t, sn, i)

\* The remaining games of team i against the opponents of the passes made.
PassedGames(i) ==
    SumSeq([j \in Idx |->
              IF \E k \in 1..pk : pairs[k] \in {<< i, j >>, << j, i >>}
              THEN R[i][j] ELSE 0])

\* C30: in every season the games the pairwise simulation adds to a team
\* (wins, losses and ties) are its remaining games against the opponents
\* simulated so far, after the last pass the sum of its row of R; over the
\* league the added wins equal the added losses; and a pass adds the ties it
\* drew to both teams of its pair, so to the league twice.
C30_AddedGamesMatchRemaining ==
    /\ [](PairEstimated =>
            \A sn \in 1..SEASONS :
                /\ \A i \in Idx :
                      /\ AddedGames(sn, i) = PassedGames(i)
                      /\ pk = Len(pairs) =>
                            AddedGames(sn, i) = SumSeq([j \in Idx |-> R[i][j]])
                /\ SumSeq([i \in Idx |-> Added(fin.w, cur.w, sn, i)])
                      = SumSeq([i \in Idx |-> Added(fin.l, cur.l, sn, i)]))
    /\ [][PairStepTaken =>
            \A sn \in 1..SEASONS :
                /\ fin'.t[sn][draw'.i] = fin.t[sn][draw'.i] + draw'.ties[sn]
                /\ fin'.t[sn][draw'.j] = fin.t[sn][draw'.j] + draw'.ties[sn]
                /\ SumSeq(fin'.t[sn]) = SumSeq(fin.t[sn]) + 2 * draw'.ties[sn]]_vars

\* The current record has been added after two or more passes, in which a
\* season had a tie and a decided game.
C30_Witness ==
    /\ ppc = "totals" /\ pk >= 2
    /\ \E sn \in 1..SEASONS : \E i, j \in Idx :
          /\ Added(fin.t, cur.t, sn, i) > 0
          /\ Added(fin.w, cur.w, sn, j) > 0

====
